---- MODULE Spec2Model ----
(***************************************************************************)
(* Model of the two MCP adapter servers of jira-confluence-mcp:            *)
(*   src/src/confluence_server.py  (ConfluenceMCPServer)                   *)
(*   src/src/jira_server.py        (JiraMCPServer)                         *)
(*                                                                         *)
(* A behaviour is one server process.  Python strings are TLA+ strings;    *)
(* a dict is a function from its keys; a value that may be None is a       *)
(* tagged record (None, Str).  The remote REST client and the local file   *)
(* system are the environment: what they answer is chosen per invocation   *)
(* and every remote call a handler issues is logged, in order, in `calls`. *)
(***************************************************************************)
EXTENDS Integers, Sequences, FiniteSets, TLC

VARIABLES
    service,      \* which process this is: "confluence" or "jira"
    environ,      \* os.environ restricted to this service's variables
    client,       \* self.confluence_client / self.jira_client
    connects,     \* how many times a client object was constructed
    failed,       \* whether a connect attempt of this process has raised
    pc,           \* transport loop: "idle", "pending" (request read), "done"
    name,         \* call_tool's name argument of the current invocation
    arguments,    \* call_tool's arguments dict of the current invocation
    calls,        \* remote API calls issued by the current invocation
    result,       \* how call_tool ended: returned text, or raised
    read_env,     \* whether the current invocation read os.environ
    handler,      \* the handler method call_tool routed the invocation to
    answers       \* what the remote API and the file system answered to it
                  \* (NoFault when call_tool raised before asking anything)

vars == <<service, environ, client, connects, failed, pc, name, arguments,
          calls, result, read_env, handler, answers>>

\* Longest transition list the remote issue tracker answers with.
MaxTransitions == 2

----------------------------------------------------------------------------
\* Python values

None == [type |-> "NoneType"]

Str(s) == [type |-> "str", v |-> s]

\* bool(x) for None and str
Truthy(x) == x # None /\ x.v # ""

\* dict.get(key, default)
get(d, key, default) == IF key \in DOMAIN d THEN d[key] ELSE default

\* dict.get(key): None when absent
getOpt(d, key) == IF key \in DOMAIN d THEN Str(d[key]) ELSE None

\* d[key] = value
Put(d, key, value) ==
    [k \in DOMAIN d \cup {key} |-> IF k = key THEN value ELSE d[k]]

\* str(KeyError(key))
KeyError(key) == "'" \o key \o "'"

UpperChars == "ABCDEFGHIJKLMNOPQRSTUVWXYZ"

LowerChars == "abcdefghijklmnopqrstuvwxyz"

LowerChar(c) ==
    IF \E i \in 1..Len(UpperChars) : SubSeq(UpperChars, i, i) = c
    THEN LET i == CHOOSE j \in 1..Len(UpperChars) : SubSeq(UpperChars, j, j) = c
         IN SubSeq(LowerChars, i, i)
    ELSE c

\* str.lower()
RECURSIVE lower(_)
lower(s) ==
    IF s = "" THEN ""
    ELSE LowerChar(SubSeq(s, 1, 1)) \o lower(SubSeq(s, 2, Len(s)))

\* sep.join(xs)
RECURSIVE join(_, _)
join(sep, xs) ==
    IF xs = <<>> THEN ""
    ELSE IF Len(xs) = 1 THEN xs[1]
    ELSE xs[1] \o sep \o join(sep, Tail(xs))

\* os.path.basename
RECURSIVE basename(_)
basename(path) ==
    IF \E i \in 1..Len(path) : SubSeq(path, i, i) = "/"
    THEN basename(SubSeq(path, 2, Len(path)))
    ELSE path

\* How a handler ends: it returns a text, or an exception leaves it.
\* `cs` is the remote calls it issued up to that point.
Return(cs, text) == [kind |-> "return", calls |-> cs, text |-> text]

Raise(cs, msg) == [kind |-> "raise", calls |-> cs, exc |-> msg]

\* One remote API call: the client method, its arguments, what it answered.
Call(api, args, ret) == [api |-> api, args |-> args, ok |-> TRUE, ret |-> ret]

\* A remote API call that raised instead of answering
CallRaised(api, args) == [api |-> api, args |-> args, ok |-> FALSE, ret |-> None]

\* The first key of `keys` that `d` lacks, "" if none: the KeyError of the
\* handler's d[key] lookups, in source order.
RECURSIVE FirstMissing(_, _)
FirstMissing(d, keys) ==
    IF keys = <<>> THEN ""
    ELSE IF Head(keys) \notin DOMAIN d THEN Head(keys)
    ELSE FirstMissing(d, Tail(keys))

----------------------------------------------------------------------------
\* Session manager

\* os.getenv(key, default)
getenv(env, key, default) == IF key \in DOMAIN env THEN env[key] ELSE default

\* ConfluenceMCPServer._connect_to_confluence: the exception it raises, or
\* the client it stores.
connect_to_confluence(env) ==
    LET url       == getenv(env, "CONFLUENCE_URL", "")
        username  == getenv(env, "CONFLUENCE_USERNAME", "")
        api_token == getenv(env, "CONFLUENCE_API_TOKEN", "")
        cloud     == lower(getenv(env, "CONFLUENCE_CLOUD", "true")) = "true"
    IN  IF url = "" \/ username = "" \/ api_token = ""
        THEN [kind |-> "raise",
              exc |-> "CONFLUENCE_URL, CONFLUENCE_USERNAME, and CONFLUENCE_API_TOKEN must be set"]
        ELSE [kind |-> "ok",
              client |-> [type |-> "Confluence", url |-> url,
                          username |-> username, password |-> api_token,
                          cloud |-> cloud]]

\* Variant of connect_to_jira that refuses only when all three are empty
connect_to_jira_any(env) ==
    LET url       == getenv(env, "JIRA_URL", "")
        username  == getenv(env, "JIRA_USERNAME", "")
        api_token == getenv(env, "JIRA_API_TOKEN", "")
        cloud     == lower(getenv(env, "JIRA_CLOUD", "true")) = "true"
    IN  IF url = "" /\ username = "" /\ api_token = ""
        THEN [kind |-> "raise",
              exc |-> "JIRA_URL, JIRA_USERNAME, and JIRA_API_TOKEN must be set"]
        ELSE [kind |-> "ok",
              client |-> [type |-> "Jira", url |-> url,
                          username |-> username, password |-> api_token,
                          cloud |-> cloud]]

\* JiraMCPServer._connect_to_jira
connect_to_jira(env) ==
    LET url       == getenv(env, "JIRA_URL", "")
        username  == getenv(env, "JIRA_USERNAME", "")
        api_token == getenv(env, "JIRA_API_TOKEN", "")
        cloud     == lower(getenv(env, "JIRA_CLOUD", "true")) = "true"
    IN  IF url = "" \/ username = "" \/ api_token = ""
        THEN [kind |-> "raise",
              exc |-> "JIRA_URL, JIRA_USERNAME, and JIRA_API_TOKEN must be set"]
        ELSE [kind |-> "ok",
              client |-> [type |-> "Jira", url |-> url,
                          username |-> username, password |-> api_token,
                          cloud |-> cloud]]

----------------------------------------------------------------------------
\* Handlers of the document service.  `cl` is self.confluence_client and
\* `remote` what the remote API answers during this invocation:
\*   remote.fail   the remote call (1st, 2nd) that raises, 0 if none does
\*   remote.error  the message of that exception
\*   remote.items  ids of the records a listing call returns
\*   remote.title  the title of the stored page
\*   remote.exists whether os.path.exists(file_path)

\* json.dumps of the projected list, abridged to the ids
dumps(items) == "[" \o join(", ", items) \o "]"

\* limit = arguments.get("limit", 25) of _search_content
search_content_limit(args) == get(args, "limit", 25)

search_content(cl, args, remote) ==
    IF FirstMissing(args, <<"cql">>) # ""
    THEN Raise(<<>>, KeyError(FirstMissing(args, <<"cql">>)))
    ELSE LET cql   == args["cql"]
             limit == search_content_limit(args)
             a     == [cql |-> cql, limit |-> limit]
         IN  IF remote.fail = 1
             THEN Raise(<<CallRaised("cql", a)>>, remote.error)
             ELSE Return(<<Call("cql", a, remote.items)>>, dumps(remote.items))

get_page(cl, args, remote) ==
    IF FirstMissing(args, <<"page_id">>) # ""
    THEN Raise(<<>>, KeyError(FirstMissing(args, <<"page_id">>)))
    ELSE LET page_id == args["page_id"]
             expand  == get(args, "expand", "body.storage,version")
             a       == [page_id |-> page_id, expand |-> expand]
             page    == [id |-> page_id, title |-> remote.title]
         IN  IF remote.fail = 1
             THEN Raise(<<CallRaised("get_page_by_id", a)>>, remote.error)
             ELSE Return(<<Call("get_page_by_id", a, page)>>,
                         "{id: " \o page.id \o ", title: " \o page.title \o "}")

create_page(cl, args, remote) ==
    IF FirstMissing(args, <<"space_key", "title", "content">>) # ""
    THEN Raise(<<>>, KeyError(FirstMissing(args, <<"space_key", "title", "content">>)))
    ELSE LET space_key == args["space_key"]
             title     == args["title"]
             content   == args["content"]
             parent_id == getOpt(args, "parent_id")
             a         == [space |-> space_key, title |-> title,
                           body |-> content, parent_id |-> parent_id]
             res       == [title |-> title, id |-> "1001"]
         IN  IF remote.fail = 1
             THEN Raise(<<CallRaised("create_page", a)>>, remote.error)
             ELSE Return(<<Call("create_page", a, res)>>,
                         "Created page: " \o res.title \o "\nID: " \o res.id
                             \o "\nURL: " \o cl.url \o "/pages/" \o res.id)

\* Variant of title_or_current that does not fall back to the stored title
title_or_blank(title, current_page) ==
    IF Truthy(title) THEN title.v ELSE ""

\* title or current_page["title"]
title_or_current(title, current_page) ==
    IF Truthy(title) THEN title.v ELSE current_page.title

\* Variant of update_page that looks up "content" only after reading the page
update_page_late_lookup(cl, args, remote) ==
    IF "page_id" \notin DOMAIN args
    THEN Raise(<<>>, KeyError("page_id"))
    ELSE LET page_id      == args["page_id"]
             rd           == [page_id |-> page_id]
             current_page == [id |-> page_id, title |-> remote.title]
             read         == Call("get_page_by_id", rd, current_page)
         IN  IF remote.fail = 1
             THEN Raise(<<CallRaised("get_page_by_id", rd)>>, remote.error)
             ELSE IF "content" \notin DOMAIN args
             THEN Raise(<<read>>, KeyError("content"))
             ELSE LET wr  == [page_id |-> page_id,
                              title |-> title_or_current(getOpt(args, "title"),
                                                         current_page),
                              body |-> args["content"],
                              version_comment |->
                                  get(args, "version_comment", "Updated via MCP")]
                      res == [title |-> wr.title, version |-> "2"]
                  IN  IF remote.fail = 2
                      THEN Raise(<<read, CallRaised("update_page", wr)>>, remote.error)
                      ELSE Return(<<read, Call("update_page", wr, res)>>,
                                  "Updated page: " \o res.title
                                      \o "\nVersion: " \o res.version)

update_page(cl, args, remote) ==
    IF FirstMissing(args, <<"page_id", "content">>) # ""
    THEN Raise(<<>>, KeyError(FirstMissing(args, <<"page_id", "content">>)))
    ELSE LET page_id         == args["page_id"]
             content         == args["content"]
             title           == getOpt(args, "title")
             version_comment == get(args, "version_comment", "Updated via MCP")
             rd              == [page_id |-> page_id]
             current_page    == [id |-> page_id, title |-> remote.title]
             read            == Call("get_page_by_id", rd, current_page)
             wr              == [page_id |-> page_id,
                                 title |-> title_or_current(title, current_page),
                                 body |-> content,
                                 version_comment |-> version_comment]
             res             == [title |-> wr.title, version |-> "2"]
         IN  IF remote.fail = 1
             THEN Raise(<<CallRaised("get_page_by_id", rd)>>, remote.error)
             ELSE IF remote.fail = 2
             THEN Raise(<<read, CallRaised("update_page", wr)>>, remote.error)
             ELSE Return(<<read, Call("update_page", wr, res)>>,
                         "Updated page: " \o res.title \o "\nVersion: " \o res.version)

\* Variant of delete_page that tries the remote call again after a failure
delete_page_retry(cl, args, remote) ==
    IF FirstMissing(args, <<"page_id">>) # ""
    THEN Raise(<<>>, KeyError(FirstMissing(args, <<"page_id">>)))
    ELSE LET page_id == args["page_id"]
             a       == [page_id |-> page_id]
         IN  IF remote.fail = 1
             THEN Return(<<CallRaised("remove_page", a), Call("remove_page", a, None)>>,
                         "Deleted page with ID: " \o page_id)
             ELSE Return(<<Call("remove_page", a, None)>>,
                         "Deleted page with ID: " \o page_id)

delete_page(cl, args, remote) ==
    IF FirstMissing(args, <<"page_id">>) # ""
    THEN Raise(<<>>, KeyError(FirstMissing(args, <<"page_id">>)))
    ELSE LET page_id == args["page_id"]
             a       == [page_id |-> page_id]
         IN  IF remote.fail = 1
             THEN Raise(<<CallRaised("remove_page", a)>>, remote.error)
             ELSE Return(<<Call("remove_page", a, None)>>,
                         "Deleted page with ID: " \o page_id)

get_spaces(cl, args, remote) ==
    LET limit == get(args, "limit", 25)
        a     == [limit |-> limit]
    IN  IF remote.fail = 1
        THEN Raise(<<CallRaised("get_all_spaces", a)>>, remote.error)
        ELSE Return(<<Call("get_all_spaces", a, remote.items)>>, dumps(remote.items))

get_page_children(cl, args, remote) ==
    IF FirstMissing(args, <<"page_id">>) # ""
    THEN Raise(<<>>, KeyError(FirstMissing(args, <<"page_id">>)))
    ELSE LET page_id == args["page_id"]
             limit   == get(args, "limit", 25)
             a       == [page_id |-> page_id, type |-> "page", limit |-> limit]
         IN  IF remote.fail = 1
             THEN Raise(<<CallRaised("get_page_child_by_type", a)>>, remote.error)
             ELSE Return(<<Call("get_page_child_by_type", a, remote.items)>>,
                         dumps(remote.items))

\* Variant of file_not_found that uploads without looking
file_not_found_ignored(file_path, remote) == FALSE

\* not os.path.exists(file_path)
file_not_found(file_path, remote) == ~remote.exists

add_attachment(cl, args, remote) ==
    IF FirstMissing(args, <<"page_id", "file_path">>) # ""
    THEN Raise(<<>>, KeyError(FirstMissing(args, <<"page_id", "file_path">>)))
    ELSE LET page_id   == args["page_id"]
             file_path == args["file_path"]
             comment   == get(args, "comment", "")
             a         == [filename |-> file_path, page_id |-> page_id,
                           comment |-> comment]
         IN  IF file_not_found(file_path, remote)
             THEN Return(<<>>, "Error: File not found: " \o file_path)
             ELSE IF remote.fail = 1
             THEN Raise(<<CallRaised("attach_file", a)>>, remote.error)
             ELSE Return(<<Call("attach_file", a, None)>>,
                         "Attached file: " \o basename(file_path)
                             \o " to page " \o page_id)

----------------------------------------------------------------------------
\* Handlers of the issue tracker.  `cl` is self.jira_client;
\*   remote.transitions  what get_issue_transitions answers under the key
\*                       "transitions": records with an id and a to.name

\* Variant of search_issues_max_results that ignores the caller's value
search_issues_max_results_fixed(args) == 50

\* max_results = arguments.get("max_results", 50) of _search_issues
search_issues_max_results(args) == get(args, "max_results", 50)

search_issues(cl, args, remote) ==
    IF FirstMissing(args, <<"jql">>) # ""
    THEN Raise(<<>>, KeyError(FirstMissing(args, <<"jql">>)))
    ELSE LET jql         == args["jql"]
             max_results == search_issues_max_results(args)
             a           == [jql |-> jql, limit |-> max_results]
         IN  IF remote.fail = 1
             THEN Raise(<<CallRaised("jql", a)>>, remote.error)
             ELSE Return(<<Call("jql", a, remote.items)>>, dumps(remote.items))

get_issue(cl, args, remote) ==
    IF FirstMissing(args, <<"issue_key">>) # ""
    THEN Raise(<<>>, KeyError(FirstMissing(args, <<"issue_key">>)))
    ELSE LET issue_key == args["issue_key"]
             a         == [key |-> issue_key]
             issue     == [key |-> issue_key, summary |-> remote.title]
         IN  IF remote.fail = 1
             THEN Raise(<<CallRaised("issue", a)>>, remote.error)
             ELSE Return(<<Call("issue", a, issue)>>,
                         "{key: " \o issue.key \o ", summary: " \o issue.summary \o "}")

\* Variant of create_issue_fields that always sends a priority, "Medium"
\* when the caller gives none
create_issue_fields_with_priority(args) ==
    LET f0 == [project   |-> [key |-> args["project_key"]],
               summary   |-> args["summary"],
               issuetype |-> [name |-> get(args, "issue_type", "Task")],
               priority  |-> [name |-> get(args, "priority", "Medium")]]
        f1 == IF "description" \in DOMAIN args
              THEN Put(f0, "description", args["description"]) ELSE f0
        f2 == IF "assignee" \in DOMAIN args
              THEN Put(f1, "assignee", [name |-> args["assignee"]]) ELSE f1
    IN  f2

\* The field map _create_issue builds before the remote call.
create_issue_fields(args) ==
    LET f0 == [project   |-> [key |-> args["project_key"]],
               summary   |-> args["summary"],
               issuetype |-> [name |-> get(args, "issue_type", "Task")]]
        f1 == IF "description" \in DOMAIN args
              THEN Put(f0, "description", args["description"]) ELSE f0
        f2 == IF "priority" \in DOMAIN args
              THEN Put(f1, "priority", [name |-> args["priority"]]) ELSE f1
        f3 == IF "assignee" \in DOMAIN args
              THEN Put(f2, "assignee", [name |-> args["assignee"]]) ELSE f2
    IN  f3

create_issue(cl, args, remote) ==
    IF FirstMissing(args, <<"project_key", "summary">>) # ""
    THEN Raise(<<>>, KeyError(FirstMissing(args, <<"project_key", "summary">>)))
    ELSE LET a   == [fields |-> create_issue_fields(args)]
             res == [key |-> args["project_key"] \o "-1"]
         IN  IF remote.fail = 1
             THEN Raise(<<CallRaised("create_issue", a)>>, remote.error)
             ELSE Return(<<Call("create_issue", a, res)>>,
                         "Created issue: " \o res.key \o "\nURL: " \o cl.url
                             \o "/rest/api/2/issue/" \o res.key)

\* Variant of update_issue_fields that also passes a labels key through
update_issue_fields_with_labels(fields) ==
    LET u0 == <<>>
        u1 == IF "summary" \in DOMAIN fields
              THEN Put(u0, "summary", fields["summary"]) ELSE u0
        u2 == IF "description" \in DOMAIN fields
              THEN Put(u1, "description", fields["description"]) ELSE u1
        u3 == IF "priority" \in DOMAIN fields
              THEN Put(u2, "priority", [name |-> fields["priority"]]) ELSE u2
        u4 == IF "assignee" \in DOMAIN fields
              THEN Put(u3, "assignee", [name |-> fields["assignee"]]) ELSE u3
        u5 == IF "labels" \in DOMAIN fields
              THEN Put(u4, "labels", fields["labels"]) ELSE u4
    IN  u5

\* The field map _update_issue builds from the caller's fields mapping.
update_issue_fields(fields) ==
    LET u0 == <<>>
        u1 == IF "summary" \in DOMAIN fields
              THEN Put(u0, "summary", fields["summary"]) ELSE u0
        u2 == IF "description" \in DOMAIN fields
              THEN Put(u1, "description", fields["description"]) ELSE u1
        u3 == IF "priority" \in DOMAIN fields
              THEN Put(u2, "priority", [name |-> fields["priority"]]) ELSE u2
        u4 == IF "assignee" \in DOMAIN fields
              THEN Put(u3, "assignee", [name |-> fields["assignee"]]) ELSE u3
    IN  u4

update_issue(cl, args, remote) ==
    IF FirstMissing(args, <<"issue_key", "fields">>) # ""
    THEN Raise(<<>>, KeyError(FirstMissing(args, <<"issue_key", "fields">>)))
    ELSE LET issue_key == args["issue_key"]
             fields    == args["fields"]
             a         == [key |-> issue_key, fields |-> update_issue_fields(fields)]
         IN  IF remote.fail = 1
             THEN Raise(<<CallRaised("update_issue_field", a)>>, remote.error)
             ELSE Return(<<Call("update_issue_field", a, None)>>,
                         "Updated issue: " \o issue_key)

add_comment(cl, args, remote) ==
    IF FirstMissing(args, <<"issue_key", "comment">>) # ""
    THEN Raise(<<>>, KeyError(FirstMissing(args, <<"issue_key", "comment">>)))
    ELSE LET issue_key == args["issue_key"]
             comment   == args["comment"]
             a         == [key |-> issue_key, comment |-> comment]
         IN  IF remote.fail = 1
             THEN Raise(<<CallRaised("issue_add_comment", a)>>, remote.error)
             ELSE Return(<<Call("issue_add_comment", a, None)>>,
                         "Added comment to issue: " \o issue_key)

\* Whether a transition's target name is the requested status, ignoring case
MatchesStatus(transition, target_status) ==
    lower(transition.to.name) = lower(target_status)

\* The loop of _transition_issue: the id of the first transition whose
\* target name matches, None when the loop ends without a break.
RECURSIVE FindTransitionId(_, _)
FindTransitionId(transitions, target_status) ==
    IF transitions = <<>> THEN None
    ELSE IF MatchesStatus(Head(transitions), target_status)
    THEN Head(transitions).id
    ELSE FindTransitionId(Tail(transitions), target_status)

\* [t["to"]["name"] for t in transitions["transitions"]]
available_statuses(transitions) ==
    [i \in 1..Len(transitions) |-> transitions[i].to.name]

\* Variant of NoTransitionFound without the early return
NoTransitionFound_skipped(transition_id) == FALSE

\* The `if not transition_id` test of _transition_issue
NoTransitionFound(transition_id) == ~Truthy(transition_id)

transition_issue(cl, args, remote) ==
    IF FirstMissing(args, <<"issue_key", "status">>) # ""
    THEN Raise(<<>>, KeyError(FirstMissing(args, <<"issue_key", "status">>)))
    ELSE LET issue_key     == args["issue_key"]
             target_status == args["status"]
             rd            == [key |-> issue_key]
             transitions   == remote.transitions
             fetch         == Call("get_issue_transitions", rd,
                                   [transitions |-> transitions])
             transition_id == FindTransitionId(transitions, target_status)
             wr            == [key |-> issue_key, status |-> transition_id]
         IN  IF remote.fail = 1
             THEN Raise(<<CallRaised("get_issue_transitions", rd)>>, remote.error)
             ELSE IF NoTransitionFound(transition_id)
             THEN Return(<<fetch>>,
                         "Cannot transition to '" \o target_status
                             \o "'. Available statuses: "
                             \o join(", ", available_statuses(transitions)))
             ELSE IF remote.fail = 2
             THEN Raise(<<fetch, CallRaised("set_issue_status", wr)>>, remote.error)
             ELSE Return(<<fetch, Call("set_issue_status", wr, None)>>,
                         "Transitioned issue " \o issue_key \o " to status: "
                             \o target_status)

get_projects(cl, remote) ==
    IF remote.fail = 1
    THEN Raise(<<CallRaised("projects", <<>>)>>, remote.error)
    ELSE Return(<<Call("projects", <<>>, remote.items)>>, dumps(remote.items))

----------------------------------------------------------------------------
\* Dispatchers

ConfluenceTools ==
    {"confluence_search_content", "confluence_get_page",
     "confluence_create_page", "confluence_update_page",
     "confluence_delete_page", "confluence_get_spaces",
     "confluence_get_page_children", "confluence_add_attachment"}

JiraTools ==
    {"jira_search_issues", "jira_get_issue", "jira_create_issue",
     "jira_update_issue", "jira_add_comment", "jira_transition_issue",
     "jira_get_projects"}

\* The "required" list of each tool's inputSchema
required(n) ==
    CASE n = "confluence_search_content"    -> {"cql"}
      [] n = "confluence_get_page"          -> {"page_id"}
      [] n = "confluence_create_page"       -> {"space_key", "title", "content"}
      [] n = "confluence_update_page"       -> {"page_id", "content"}
      [] n = "confluence_delete_page"       -> {"page_id"}
      [] n = "confluence_get_spaces"        -> {}
      [] n = "confluence_get_page_children" -> {"page_id"}
      [] n = "confluence_add_attachment"    -> {"page_id", "file_path"}
      [] n = "jira_search_issues"           -> {"jql"}
      [] n = "jira_get_issue"               -> {"issue_key"}
      [] n = "jira_create_issue"            -> {"project_key", "summary"}
      [] n = "jira_update_issue"            -> {"issue_key", "fields"}
      [] n = "jira_add_comment"             -> {"issue_key", "comment"}
      [] n = "jira_transition_issue"        -> {"issue_key", "status"}
      [] n = "jira_get_projects"            -> {}

\* Variant of confluence_handler whose chain lacks the get_spaces branch
confluence_handler_incomplete(n) ==
    CASE n = "confluence_search_content"    -> "_search_content"
      [] n = "confluence_get_page"          -> "_get_page"
      [] n = "confluence_create_page"       -> "_create_page"
      [] n = "confluence_update_page"       -> "_update_page"
      [] n = "confluence_delete_page"       -> "_delete_page"
      [] n = "confluence_get_page_children" -> "_get_page_children"
      [] n = "confluence_add_attachment"    -> "_add_attachment"
      [] OTHER                              -> "none"

\* The if/elif chain inside call_tool's try block (document service): the
\* handler method a name is routed to, "none" for the else branch
confluence_handler(n) ==
    CASE n = "confluence_search_content"    -> "_search_content"
      [] n = "confluence_get_page"          -> "_get_page"
      [] n = "confluence_create_page"       -> "_create_page"
      [] n = "confluence_update_page"       -> "_update_page"
      [] n = "confluence_delete_page"       -> "_delete_page"
      [] n = "confluence_get_spaces"        -> "_get_spaces"
      [] n = "confluence_get_page_children" -> "_get_page_children"
      [] n = "confluence_add_attachment"    -> "_add_attachment"
      [] OTHER                              -> "none"

\* The if/elif chain inside call_tool's try block (issue tracker)
jira_handler(n) ==
    CASE n = "jira_search_issues"    -> "_search_issues"
      [] n = "jira_get_issue"        -> "_get_issue"
      [] n = "jira_create_issue"     -> "_create_issue"
      [] n = "jira_update_issue"     -> "_update_issue"
      [] n = "jira_add_comment"      -> "_add_comment"
      [] n = "jira_transition_issue" -> "_transition_issue"
      [] n = "jira_get_projects"     -> "_get_projects"
      [] OTHER                       -> "none"

\* The "default" entries of each tool's inputSchema properties
schema_defaults(n) ==
    CASE n = "confluence_search_content"    -> [limit |-> 25]
      [] n = "confluence_get_page"          -> [expand |-> "body.storage,version"]
      [] n = "confluence_get_spaces"        -> [limit |-> 25]
      [] n = "confluence_get_page_children" -> [limit |-> 25]
      [] n = "jira_search_issues"           -> [max_results |-> 50]
      [] n = "jira_create_issue"            -> [issue_type |-> "Task",
                                                priority |-> "Medium"]
      [] OTHER                              -> <<>>

\* The body of call_tool's try block (document service): what the routed
\* handler does, or the text of the else branch
confluence_dispatch(cl, n, args, remote) ==
    LET h == confluence_handler(n)
    IN  CASE h = "_search_content"    -> search_content(cl, args, remote)
          [] h = "_get_page"          -> get_page(cl, args, remote)
          [] h = "_create_page"       -> create_page(cl, args, remote)
          [] h = "_update_page"       -> update_page(cl, args, remote)
          [] h = "_delete_page"       -> delete_page(cl, args, remote)
          [] h = "_get_spaces"        -> get_spaces(cl, args, remote)
          [] h = "_get_page_children" -> get_page_children(cl, args, remote)
          [] h = "_add_attachment"    -> add_attachment(cl, args, remote)
          [] OTHER                    -> Return(<<>>, "Unknown tool: " \o n)

\* The body of call_tool's try block (issue tracker)
jira_dispatch(cl, n, args, remote) ==
    LET h == jira_handler(n)
    IN  CASE h = "_search_issues"    -> search_issues(cl, args, remote)
          [] h = "_get_issue"        -> get_issue(cl, args, remote)
          [] h = "_create_issue"     -> create_issue(cl, args, remote)
          [] h = "_update_issue"     -> update_issue(cl, args, remote)
          [] h = "_add_comment"      -> add_comment(cl, args, remote)
          [] h = "_transition_issue" -> transition_issue(cl, args, remote)
          [] h = "_get_projects"     -> get_projects(cl, remote)
          [] OTHER                   -> Return(<<>>, "Unknown tool: " \o n)

\* `except Exception as e`: the handler's exception becomes a text
except_Exception(h) ==
    IF h.kind = "raise" THEN Return(h.calls, "Error: " \o h.exc) ELSE h

\* `not self.confluence_client`
not_confluence_client(cl) == cl = None

\* Variant of not_jira_client that reconnects on every invocation
not_jira_client_always(cl) == TRUE

\* `not self.jira_client`
not_jira_client(cl) == cl = None

\* ConfluenceMCPServer call_tool: the client afterwards, whether one was
\* constructed, whether os.environ was read, the handler the name was routed
\* to ("none" when no handler ran), and how the call ended.
confluence_call_tool(cl, env, n, args, remote) ==
    LET need == not_confluence_client(cl)
        conn == connect_to_confluence(env)
    IN  IF need /\ conn.kind = "raise"
        THEN [client |-> cl, constructed |-> FALSE, read_env |-> TRUE,
              handler |-> "none", out |-> Raise(<<>>, conn.exc)]
        ELSE LET cl2 == IF need THEN conn.client ELSE cl
             IN  [client |-> cl2, constructed |-> need, read_env |-> need,
                  handler |-> confluence_handler(n),
                  out |-> except_Exception(confluence_dispatch(cl2, n, args, remote))]

\* JiraMCPServer call_tool
jira_call_tool(cl, env, n, args, remote) ==
    LET need == not_jira_client(cl)
        conn == connect_to_jira(env)
    IN  IF need /\ conn.kind = "raise"
        THEN [client |-> cl, constructed |-> FALSE, read_env |-> TRUE,
              handler |-> "none", out |-> Raise(<<>>, conn.exc)]
        ELSE LET cl2 == IF need THEN conn.client ELSE cl
             IN  [client |-> cl2, constructed |-> need, read_env |-> need,
                  handler |-> jira_handler(n),
                  out |-> except_Exception(jira_dispatch(cl2, n, args, remote))]

----------------------------------------------------------------------------
\* Inputs

\* Every dict over a subset of the keys of V (a record of value sets)
RECURSIVE DictsOver(_, _)
DictsOver(keys, V) ==
    IF keys = <<>> THEN {<<>>}
    ELSE LET rest == DictsOver(Tail(keys), V)
         IN  rest \cup {Put(d, Head(keys), v) : d \in rest, v \in V[Head(keys)]}

IssueFieldDicts ==
    DictsOver(<<"summary", "description", "priority", "assignee", "labels">>,
              [summary |-> {"New summary"}, description |-> {"New text"},
               priority |-> {"High"}, assignee |-> {"alice"},
               labels |-> {"backend"}])

\* The argument dicts a caller may send with tool n, required keys or not
ToolArguments(n) ==
    CASE n = "confluence_search_content" ->
            DictsOver(<<"cql", "limit">>,
                      [cql |-> {"type=page"}, limit |-> {1, 25, 100}])
      [] n = "confluence_get_page" ->
            DictsOver(<<"page_id", "expand">>,
                      [page_id |-> {"123"},
                       expand |-> {"version", "body.storage,version"}])
      [] n = "confluence_create_page" ->
            DictsOver(<<"space_key", "title", "content", "parent_id">>,
                      [space_key |-> {"DEV"}, title |-> {"Release"},
                       content |-> {"<p>x</p>"}, parent_id |-> {"77"}])
      [] n = "confluence_update_page" ->
            DictsOver(<<"page_id", "content", "title", "version_comment">>,
                      [page_id |-> {"123"}, content |-> {"<p>x</p>"},
                       title |-> {"", "Release"},
                       version_comment |-> {"fix typo"}])
      [] n = "confluence_delete_page" ->
            DictsOver(<<"page_id">>, [page_id |-> {"123"}])
      [] n = "confluence_get_spaces" ->
            DictsOver(<<"limit">>, [limit |-> {1, 25}])
      [] n = "confluence_get_page_children" ->
            DictsOver(<<"page_id", "limit">>,
                      [page_id |-> {"123"}, limit |-> {1, 25}])
      [] n = "confluence_add_attachment" ->
            DictsOver(<<"page_id", "file_path", "comment">>,
                      [page_id |-> {"123"}, file_path |-> {"/tmp/a.txt"},
                       comment |-> {"note"}])
      [] n = "jira_search_issues" ->
            DictsOver(<<"jql", "max_results">>,
                      [jql |-> {"project=DEV"}, max_results |-> {1, 50, 100}])
      [] n = "jira_get_issue" ->
            DictsOver(<<"issue_key">>, [issue_key |-> {"DEV-1"}])
      [] n = "jira_create_issue" ->
            DictsOver(<<"project_key", "summary", "issue_type", "description",
                        "priority", "assignee">>,
                      [project_key |-> {"DEV"}, summary |-> {"Crash"},
                       issue_type |-> {"Task", "Bug"},
                       description |-> {"It crashes"},
                       priority |-> {"Medium", "High"},
                       assignee |-> {"alice"}])
      [] n = "jira_update_issue" ->
            DictsOver(<<"issue_key", "fields">>,
                      [issue_key |-> {"DEV-1"}, fields |-> IssueFieldDicts])
      [] n = "jira_add_comment" ->
            DictsOver(<<"issue_key", "comment">>,
                      [issue_key |-> {"DEV-1"}, comment |-> {"note"}])
      [] n = "jira_transition_issue" ->
            DictsOver(<<"issue_key", "status">>,
                      [issue_key |-> {"DEV-1"},
                       status |-> {"done", "Done", "IN REVIEW", "Blocked"}])
      [] OTHER -> {<<>>}

\* Names a caller may send: the declared tools of this server, a name no
\* server declares, and a name only the other server declares
ToolNames(svc) ==
    IF svc = "confluence"
    THEN ConfluenceTools \cup {"frobnicate", "jira_get_issue"}
    ELSE JiraTools \cup {"frobnicate", "confluence_get_page"}

Transitions ==
    {[id |-> i, to |-> [name |-> t]] :
        i \in {Str(""), Str("11")}, t \in {"Done", "In Review"}}

RECURSIVE SeqsUpTo(_, _)
SeqsUpTo(S, n) ==
    IF n = 0 THEN {<<>>}
    ELSE LET shorter == SeqsUpTo(S, n - 1)
         IN  shorter \cup {Append(q, x) : q \in {r \in shorter : Len(r) = n - 1}, x \in S}

NoFault ==
    [fail |-> 0, error |-> "503 Service Unavailable", items |-> <<>>,
     title |-> "Home", exists |-> TRUE, transitions |-> <<>>]

\* What the remote API and the file system may answer during one invocation
Remotes(n) ==
    {[NoFault EXCEPT !.fail = f, !.items = it, !.title = ti, !.exists = ex,
                     !.transitions = tr] :
        f  \in IF n \in {"confluence_update_page", "jira_transition_issue"}
               THEN 0..2
               ELSE IF n \in ConfluenceTools \cup JiraTools THEN 0..1 ELSE {0},
        it \in IF n \in {"confluence_search_content", "confluence_get_spaces",
                         "confluence_get_page_children", "jira_search_issues",
                         "jira_get_projects"}
               THEN {<<>>, <<"A", "B">>} ELSE {<<>>},
        ti \in IF n \in {"confluence_update_page", "confluence_get_page"}
               THEN {"Home", "Draft"} ELSE {"Home"},
        ex \in IF n = "confluence_add_attachment" THEN BOOLEAN ELSE {TRUE},
        tr \in IF n = "jira_transition_issue"
               THEN SeqsUpTo(Transitions, MaxTransitions) ELSE {<<>>}}

\* The values os.environ may hold for this service's variables
Environs(svc) ==
    IF svc = "confluence"
    THEN DictsOver(<<"CONFLUENCE_URL", "CONFLUENCE_USERNAME", "CONFLUENCE_CLOUD">>,
                   [CONFLUENCE_URL |-> {"https://a.example", "https://b.example"},
                    CONFLUENCE_USERNAME |-> {"user"},
                    CONFLUENCE_CLOUD |-> {"False"}])
         \X {"", "tok"}
    ELSE DictsOver(<<"JIRA_URL", "JIRA_USERNAME", "JIRA_CLOUD">>,
                   [JIRA_URL |-> {"https://a.example", "https://b.example"},
                    JIRA_USERNAME |-> {"user"},
                    JIRA_CLOUD |-> {"False"}])
         \X {"", "tok"}

\* os.environ for a choice of Environs: the API token is set, maybe empty
EnvironOf(svc, e) ==
    Put(e[1], IF svc = "confluence" THEN "CONFLUENCE_API_TOKEN"
              ELSE "JIRA_API_TOKEN", e[2])

----------------------------------------------------------------------------
\* The state machine

Idle ==
    /\ pc = "idle"
    /\ name = ""
    /\ arguments = <<>>
    /\ calls = <<>>
    /\ result = [kind |-> "none"]
    /\ read_env = FALSE
    /\ handler = "none"
    /\ answers = NoFault

Init ==
    /\ service \in {"confluence", "jira"}
    /\ \E e \in Environs(service) : environ = EnvironOf(service, e)
    /\ client = None
    /\ connects = 0
    /\ failed = FALSE
    /\ Idle

\* The transport loop reads a tool-call request.
Receive ==
    /\ pc = "idle"
    /\ \E n \in ToolNames(service) :
         \E a \in ToolArguments(n) :
            /\ name' = n
            /\ arguments' = a
    /\ pc' = "pending"
    /\ UNCHANGED <<service, environ, client, connects, failed, calls, result,
                   read_env, handler, answers>>

Finish(r, remote) ==
    /\ answers' = IF r.out.kind = "raise" THEN NoFault ELSE remote
    /\ client' = r.client
    /\ connects' = IF r.constructed THEN connects + 1 ELSE connects
    /\ failed' = (failed \/ r.out.kind = "raise")
    /\ read_env' = r.read_env
    /\ handler' = r.handler
    /\ calls' = r.out.calls
    /\ result' = IF r.out.kind = "raise"
                 THEN [kind |-> "raise", exc |-> r.out.exc]
                 ELSE [kind |-> "return", text |-> r.out.text]
    /\ pc' = "done"
    /\ UNCHANGED <<service, environ, name, arguments>>

\* The document server serves the request.
ConfluenceCallTool ==
    /\ pc = "pending"
    /\ service = "confluence"
    /\ \E remote \in Remotes(name) :
          Finish(confluence_call_tool(client, environ, name, arguments, remote),
                 remote)

\* The issue server serves the request.
JiraCallTool ==
    /\ pc = "pending"
    /\ service = "jira"
    /\ \E remote \in Remotes(name) :
          Finish(jira_call_tool(client, environ, name, arguments, remote),
                 remote)

\* The transport loop writes the response (or reports the exception) and
\* waits for the next request.
Reply ==
    /\ pc = "done"
    /\ pc' = "idle"
    /\ name' = ""
    /\ arguments' = <<>>
    /\ calls' = <<>>
    /\ result' = [kind |-> "none"]
    /\ read_env' = FALSE
    /\ handler' = "none"
    /\ answers' = NoFault
    /\ UNCHANGED <<service, environ, client, connects, failed>>

\* The process environment changes between two requests.
SetEnv ==
    /\ pc = "idle"
    /\ \E e \in Environs(service) :
          /\ EnvironOf(service, e) # environ
          /\ environ' = EnvironOf(service, e)
    /\ UNCHANGED <<service, client, connects, failed, pc, name, arguments,
                   calls, result, read_env, handler, answers>>

Next ==
    \/ Receive
    \/ ConfluenceCallTool
    \/ JiraCallTool
    \/ Reply
    \/ SetEnv

Spec == Init /\ [][Next]_vars

----------------------------------------------------------------------------
\* Vocabulary of the properties

\* The tools the running server declares
Declared == IF service = "confluence" THEN ConfluenceTools ELSE JiraTools

EnvPrefix == IF service = "confluence" THEN "CONFLUENCE_" ELSE "JIRA_"

\* The URL, the username or the API token is empty in the environment
CredentialUnset ==
    \E k \in {"URL", "USERNAME", "API_TOKEN"} :
        getenv(environ, EnvPrefix \o k, "") = ""

\* The invocation has all the arguments its tool requires
RequiredPresent == required(name) \subseteq DOMAIN arguments

\* s begins with prefix
startswith(s, prefix) ==
    Len(s) >= Len(prefix) /\ SubSeq(s, 1, Len(prefix)) = prefix

\* Position of the first occurrence of sub in s, 0 if there is none
find(s, sub) ==
    LET at == {i \in 1..(Len(s) - Len(sub) + 1) :
                  SubSeq(s, i, i + Len(sub) - 1) = sub}
    IN  IF at = {} THEN 0 ELSE CHOOSE i \in at : \A j \in at : i <= j

contains(s, sub) == find(s, sub) # 0

\* The pieces of s between occurrences of sep; no piece for the empty text
RECURSIVE split(_, _)
split(s, sep) ==
    IF s = "" THEN <<>>
    ELSE IF find(s, sep) = 0 THEN <<s>>
    ELSE <<SubSeq(s, 1, find(s, sep) - 1)>>
             \o split(SubSeq(s, find(s, sep) + Len(sep), Len(s)), sep)

\* The status names a "Cannot transition" text lists
ListedStatuses(text) ==
    LET marker == "Available statuses: "
    IN  split(SubSeq(text, find(text, marker) + Len(marker), Len(text)), ", ")

\* The remote API answered the transition list, and these are the positions
\* of the transitions whose target name is the requested status, ignoring case
TransitionsFetched ==
    /\ pc = "done"
    /\ name = "jira_transition_issue"
    /\ client # None
    /\ RequiredPresent
    /\ answers.fail # 1

Matching ==
    {i \in 1..Len(answers.transitions) :
        lower(answers.transitions[i].to.name) = lower(arguments["status"])}

----------------------------------------------------------------------------
\* Properties

\* C1: with the URL, username or API token empty and no client retained,
\* call_tool returns a text that begins with "Error:" and names the missing
\* configuration; the failure does not leave call_tool as an exception.
C1_ConfigFailureIsErrorText ==
    (pc = "done" /\ read_env /\ CredentialUnset)
        => /\ result.kind = "return"
           /\ startswith(result.text, "Error:")
           /\ contains(result.text, "must be set")

\* C2: in every session state, a name that is not a declared tool gets
\* exactly the text "Unknown tool: {name}", raises nothing and issues no
\* remote call.
C2_UnknownToolIsText ==
    (pc = "done" /\ name \notin Declared)
        => /\ result.kind = "return"
           /\ result.text = "Unknown tool: " \o name
           /\ calls = <<>>

\* C3: whatever fault occurs while serving an invocation, call_tool returns
\* the text "Error: {message}" and lets no exception out; a remote call that
\* failed is the last call of the invocation (it is not retried).
C3_NoFaultEscapes ==
    pc = "done"
        => /\ result.kind = "return"
           /\ \A i \in 1..Len(calls) :
                ~calls[i].ok => /\ i = Len(calls)
                                /\ result.text = "Error: " \o answers.error
           /\ (name \in Declared /\ ~RequiredPresent)
                => startswith(result.text, "Error: ")

\* C4: the client is constructed at most once; once one is retained, no step
\* replaces it and no invocation reads the environment again.
C4_ClientConstructedOnce ==
    [][/\ connects' <= 1
       /\ client # None => (client' = client /\ ~read_env')]_vars

\* C4 witness: an invocation was served by a retained client although the
\* environment now names another URL.
C4_Witness ==
    /\ pc = "done"
    /\ client # None
    /\ connects = 1
    /\ ~read_env
    /\ result.kind = "return"
    /\ client.url # getenv(environ, EnvPrefix \o "URL", "")

\* C5: when no available transition's target name is the requested status
\* (ignoring case), the handler returns a text that is not an "Error:" text
\* and lists exactly the available target names in order; set_issue_status
\* is not called.
C5_NoMatchListsStatuses ==
    (TransitionsFetched /\ Matching = {})
        => /\ result.kind = "return"
           /\ ~startswith(result.text, "Error:")
           /\ ListedStatuses(result.text)
                = [i \in 1..Len(answers.transitions) |->
                       answers.transitions[i].to.name]
           /\ \A i \in 1..Len(calls) : calls[i].api # "set_issue_status"

\* C5 witness: "Blocked" was requested where Done and In Review are on offer.
C5_Witness ==
    /\ TransitionsFetched
    /\ arguments["status"] = "Blocked"
    /\ Len(answers.transitions) = 2
    /\ answers.transitions[1].to.name = "Done"
    /\ answers.transitions[2].to.name = "In Review"
    /\ result.kind = "return"
    /\ Len(calls) = 1

\* C6: when some available transition's target name is the requested status
\* ignoring case, set_issue_status is called exactly once, after the fetch,
\* with the id of the first such transition, whatever ids the API returns.
C6_MatchSetsStatus ==
    (TransitionsFetched /\ Matching # {})
        => /\ Len(calls) = 2
           /\ calls[1].api = "get_issue_transitions"
           /\ calls[2].api = "set_issue_status"
           /\ calls[2].args.status =
                answers.transitions[CHOOSE i \in Matching :
                                        \A j \in Matching : i <= j].id

\* C7: a document update without a title argument reads the page before it
\* writes, the title it writes is the title that read returned, and an
\* update in which no remote call fails is exactly that read and that write.
C7_UpdateKeepsTitle ==
    (/\ pc = "done"
     /\ name = "confluence_update_page"
     /\ client # None
     /\ RequiredPresent
     /\ "title" \notin DOMAIN arguments)
        => /\ \A i \in 1..Len(calls) :
                calls[i].api = "update_page"
                    => /\ i = 2
                       /\ calls[1].api = "get_page_by_id"
                       /\ calls[1].ok
                       /\ calls[2].args.title = calls[1].ret.title
           /\ answers.fail = 0
                => /\ Len(calls) = 2
                   /\ calls[2].api = "update_page"
                   /\ calls[2].args.title = answers.title

\* C7 witness: an update without a title wrote back the title "Draft" it read.
C7_Witness ==
    /\ pc = "done"
    /\ name = "confluence_update_page"
    /\ "title" \notin DOMAIN arguments
    /\ Len(calls) = 2
    /\ calls[1].api = "get_page_by_id"
    /\ calls[2].api = "update_page"
    /\ calls[2].ok
    /\ calls[2].args.title = "Draft"

\* C8: add attachment with a file path that does not exist returns the text
\* "Error: File not found: {path}" as an ordinary result and attach_file is
\* not called.
C8_MissingFileNotUploaded ==
    (/\ pc = "done"
     /\ name = "confluence_add_attachment"
     /\ client # None
     /\ RequiredPresent
     /\ ~answers.exists)
        => /\ result.kind = "return"
           /\ result.text = "Error: File not found: " \o arguments["file_path"]
           /\ calls = <<>>

\* C8 witness: an attachment whose file does not exist was served.
C8_Witness ==
    /\ pc = "done"
    /\ name = "confluence_add_attachment"
    /\ client # None
    /\ RequiredPresent
    /\ ~answers.exists
    /\ result.kind = "return"

\* C9: the search handlers pass the remote query the limit 25 (documents) or
\* 50 (issues) when the caller omits it and the caller's value otherwise,
\* and pass the query string as given.
C9_SearchLimits ==
    (/\ pc = "done"
     /\ name \in {"confluence_search_content", "jira_search_issues"}
     /\ client # None
     /\ RequiredPresent)
        => /\ name = "confluence_search_content"
                => /\ Len(calls) = 1
                   /\ calls[1].api = "cql"
                   /\ calls[1].args.cql = arguments["cql"]
                   /\ calls[1].args.limit =
                        IF "limit" \in DOMAIN arguments
                        THEN arguments["limit"] ELSE 25
           /\ name = "jira_search_issues"
                => /\ Len(calls) = 1
                   /\ calls[1].api = "jql"
                   /\ calls[1].args.jql = arguments["jql"]
                   /\ calls[1].args.limit =
                        IF "max_results" \in DOMAIN arguments
                        THEN arguments["max_results"] ELSE 50

\* C9 witness: an issue search with max_results 100 and a document search
\* without limit have been served (one per process).
C9_Witness ==
    /\ pc = "done"
    /\ Len(calls) = 1
    /\ \/ /\ name = "jira_search_issues"
          /\ "max_results" \in DOMAIN arguments
          /\ arguments["max_results"] = 100
          /\ calls[1].args.limit = 100
       \/ /\ name = "confluence_search_content"
          /\ "limit" \notin DOMAIN arguments
          /\ calls[1].args.limit = 25

\* C10 as stated, for the invocations that reach a handler with a session:
\* every invocation of a declared tool with its required arguments issues
\* exactly one remote call, except document update and issue transition,
\* which may issue two; none issues more than two.
C10_ExactlyOneCall ==
    (pc = "done" /\ name \in Declared /\ RequiredPresent /\ client # None)
        => /\ Len(calls) <= 2
           /\ name \notin {"confluence_update_page", "jira_transition_issue"}
                => Len(calls) = 1
           /\ name \in {"confluence_update_page", "jira_transition_issue"}
                => Len(calls) \in {1, 2}

\* C10 amended: such an invocation issues no remote call when no session
\* could be established or when add attachment's file does not exist;
\* otherwise exactly one, except document update and issue transition,
\* which issue one or two.  No invocation issues more than two.
C10_CallCount ==
    /\ pc = "done" => Len(calls) <= 2
    /\ (pc = "done" /\ name \in Declared /\ RequiredPresent)
        => Len(calls) \in
              IF client = None THEN {0}
              ELSE IF name = "confluence_add_attachment" /\ ~answers.exists
              THEN {0}
              ELSE IF name \in {"confluence_update_page", "jira_transition_issue"}
              THEN {1, 2}
              ELSE {1}

\* C10 witness: an add attachment with all its arguments was served by a
\* retained client without any remote call.
C10_Witness ==
    /\ pc = "done"
    /\ name = "confluence_add_attachment"
    /\ RequiredPresent
    /\ client # None
    /\ result.kind = "return"
    /\ calls = <<>>

\* The prefix of the running server's tool names
ToolPrefix == IF service = "confluence" THEN "confluence_" ELSE "jira_"

\* C11: the catalog and the dispatcher agree: the servers declare 8 and 7
\* tools, 15 in total; call_tool routes every declared name to one handler,
\* the method named after the tool, and no other name to any handler.
C11_CatalogMatchesDispatch ==
    /\ Cardinality(ConfluenceTools) = 8
    /\ Cardinality(JiraTools) = 7
    /\ Cardinality(ConfluenceTools \cup JiraTools) = 15
    /\ (pc = "done" /\ client # None)
        => /\ name \in Declared
                => handler = "_" \o SubSeq(name, Len(ToolPrefix) + 1, Len(name))
           /\ name \notin Declared
                => /\ handler = "none"
                   /\ result.text = "Unknown tool: " \o name

\* C11 witness: a declared tool was routed to its handler.
C11_Witness ==
    /\ pc = "done"
    /\ client # None
    /\ name = "confluence_get_spaces"
    /\ handler = "_get_spaces"
    /\ Len(calls) = 1

CallsFor(a) ==
    IF service = "confluence"
    THEN confluence_dispatch(client, name, a, answers).calls
    ELSE jira_dispatch(client, name, a, answers).calls

\* C13: for every optional argument whose input schema declares a default,
\* an invocation that omits it issues the same remote calls as one that
\* supplies the declared default.
C13_DeclaredDefaultsApplied ==
    (pc = "done" /\ name \in Declared /\ client # None /\ RequiredPresent)
        => \A k \in DOMAIN schema_defaults(name) :
              k \notin DOMAIN arguments
                  => calls = CallsFor(Put(arguments, k, schema_defaults(name)[k]))

\* C14: the field map update_issue sends has only the keys summary,
\* description, priority, assignee, each exactly when the caller's fields
\* mapping has it; summary and description as given, priority and assignee
\* wrapped as {"name": value}; any other key of the mapping is dropped.
C14_UpdateIssueFields ==
    (/\ pc = "done"
     /\ name = "jira_update_issue"
     /\ client # None
     /\ RequiredPresent)
        => /\ Len(calls) = 1
           /\ calls[1].api = "update_issue_field"
           /\ calls[1].args.key = arguments["issue_key"]
           /\ LET u == calls[1].args.fields
                  f == arguments["fields"]
              IN  /\ DOMAIN u = DOMAIN f \cap {"summary", "description",
                                               "priority", "assignee"}
                  /\ \A k \in DOMAIN u \cap {"summary", "description"} :
                        u[k] = f[k]
                  /\ \A k \in DOMAIN u \cap {"priority", "assignee"} :
                        u[k] = [name |-> f[k]]

\* C14 witness: an update whose mapping had summary, priority and labels sent
\* summary and the wrapped priority, not labels.
C14_Witness ==
    /\ pc = "done"
    /\ name = "jira_update_issue"
    /\ RequiredPresent
    /\ DOMAIN arguments["fields"] = {"summary", "priority", "labels"}
    /\ Len(calls) = 1
    /\ calls[1].ok
    /\ DOMAIN calls[1].args.fields = {"summary", "priority"}
    /\ calls[1].args.fields["priority"] = [name |-> "High"]

\* C15: a document update with a title supplied does not read the current
\* page: the update is its single remote call.
C15_TitleGivenNoRead ==
    (/\ pc = "done"
     /\ name = "confluence_update_page"
     /\ client # None
     /\ RequiredPresent
     /\ "title" \in DOMAIN arguments
     /\ arguments["title"] # "")
        => /\ \A i \in 1..Len(calls) : calls[i].api # "get_page_by_id"
           /\ Len(calls) = 1
           /\ calls[1].api = "update_page"

\* C16: an invocation of a declared tool that lacks one of its required
\* arguments, served with a client, returns a text beginning "Error:" (the
\* KeyError of a missing key) and issues no remote call.
C16_MissingArgumentNoCall ==
    (pc = "done" /\ name \in Declared /\ client # None /\ ~RequiredPresent)
        => /\ result.kind = "return"
           /\ startswith(result.text, "Error:")
           /\ \E k \in required(name) \ DOMAIN arguments :
                 result.text = "Error: '" \o k \o "'"
           /\ calls = <<>>

\* C16 witness: a retained client served an update_page that had a page_id
\* but no content.
C16_Witness ==
    /\ pc = "done"
    /\ name = "confluence_update_page"
    /\ client # None
    /\ ~read_env
    /\ "page_id" \in DOMAIN arguments
    /\ "content" \notin DOMAIN arguments
    /\ result.kind = "return"
    /\ result.text = "Error: 'content'"

====
